---- MODULE Spec2Model ----
(***************************************************************************)
(* Model of the multiCam controller: the command channel (send_command),   *)
(* the file transfer reader (_handle_file_download), the broadcast         *)
(* coordinator (send_command_to_all), the device registry and the session  *)
(* orchestrator (MultiCamApp.start_recording / stop_recording).            *)
(***************************************************************************)
EXTENDS Integers, Sequences, FiniteSets, TLC

(***************************************************************************)
(* Python values returned by the controller.  Every value has the same     *)
(* record shape so that any two of them can be compared.                   *)
(*   t = "False" | "True" | "None" | "str" | "dict" | "num" | "raise"      *)
(* "raise" stands for an exception that left the function.                 *)
(***************************************************************************)
PyVal(t, s, f, n) == [t |-> t, s |-> s, f |-> f, n |-> n]

PyFalse == PyVal("False", "", {}, 0)

PyTrue == PyVal("True", "", {}, 0)

PyNone == PyVal("None", "", {}, 0)

PyStr(s) == PyVal("str", s, {}, 0)

PyDict(f) == PyVal("dict", "", f, 0)

PyNum(n) == PyVal("num", "", {}, n)

PyRaise(kind) == PyVal("raise", kind, {}, 0)

\* Python truthiness (bool(v)).
Truthy(v) ==
    CASE v.t = "True" -> TRUE
      [] v.t = "str" -> v.s # ""
      [] v.t = "dict" -> v.f # {}
      [] v.t = "num" -> v.n # 0
      [] OTHER -> FALSE

\* isinstance(v, str)
IsStr(v) == v.t = "str"

(***************************************************************************)
(* Wire bytes of a structured (JSON) reply.  A reply is a sequence of      *)
(* lexical units:                                                          *)
(*   "{" "}"   the braces of an object                                     *)
(*   "fid"     the member  "fileId": "vid1"                                *)
(*   "fid0"    the member  "fileId": ""                                    *)
(*   "err"     the member  "error": "..."                                  *)
(*   "ok"      the member  "status": "ok"                                  *)
(*   "str"     a complete string literal  "done"                           *)
(*   "num"     one digit 1 of a number                                     *)
(*   "bad"     a byte that is not valid UTF-8                              *)
(*   "ws"      a whitespace byte (a trailing newline)                      *)
(*   "c"       a byte of raw file content                                  *)
(***************************************************************************)
MemberUnits == {"fid", "fid0", "err", "ok", "name", "size"}

RECURSIVE DigitsValue(_)
DigitsValue(k) == IF k = 0 THEN 0 ELSE 10 * DigitsValue(k - 1) + 1

\* json.loads(data.decode('utf-8')): err is "" or the exception raised.
ParseJSON(bytes) ==
    LET data == SelectSeq(bytes, LAMBDA u : u # "ws")     \* surrounding whitespace is skipped
        n == Len(data)
        inner == {data[i] : i \in 2..(n - 1)}
    IN  IF \E i \in 1..Len(bytes) : bytes[i] = "bad"
        THEN [err |-> "UnicodeDecodeError", val |-> PyNone]
        ELSE IF n = 1 /\ data[1] = "str"
        THEN [err |-> "", val |-> PyStr("done")]
        ELSE IF n >= 1 /\ \A i \in 1..n : data[i] = "num"
        THEN [err |-> "", val |-> PyNum(DigitsValue(n))]
        ELSE IF n >= 2 /\ data[1] = "{" /\ data[n] = "}" /\ inner \subseteq MemberUnits
        THEN [err |-> "", val |-> PyDict(inner)]
        ELSE [err |-> "JSONDecodeError", val |-> PyNone]

\* A test that takes the fileId only from a reply without an error member.
HasFileIdUnlessError(v) ==
    v.t = "dict" /\ ("fid" \in v.f \/ "fid0" \in v.f) /\ "err" \notin v.f

\* "fileId" in response_json  (line 134); raises TypeError on a number.
HasFileId(v) ==
    CASE v.t = "dict" -> ("fid" \in v.f \/ "fid0" \in v.f)
      [] v.t = "str" -> FALSE      \* "fileId" is not a substring of "done"
      [] OTHER -> FALSE

\* response_json["fileId"]  (lines 134, 137)
FileIdOf(v) == IF "fid" \in v.f THEN "vid1" ELSE ""

(***************************************************************************)
(* Peer behaviour.  A reply script says what a device does on one          *)
(* connection of a non-transfer command:                                   *)
(*   connect     whether the connection is accepted                        *)
(*   deliveries  the reply bytes, as the non-empty pieces successive       *)
(*               recv() calls return (every piece fits the 4096 / 8192     *)
(*               byte buffer)                                              *)
(*   end         after the last piece the peer closes the connection       *)
(*               ("close": recv returns b"") or stays silent ("silent":    *)
(*               recv raises socket.timeout)                               *)
(***************************************************************************)
ReplyBodies ==
    { <<"{", "fid", "}">>, <<"{", "fid", "err", "}">>, <<"{", "fid0", "}">>,
      <<"{", "ok", "}">>, <<"{", "}">>, <<"str">>, <<"num", "num">>,
      <<"bad">>, <<"{", "ok">>, <<"{", "ok", "}", "ws">> }

\* The pieces of body cut after every position of cuts.
RECURSIVE Pieces(_, _, _)
Pieces(body, cuts, from) ==
    LET later == {c \in cuts : c >= from}
        upto == IF later = {} THEN Len(body)
                ELSE CHOOSE c \in later : \A d \in later : c <= d
    IN  IF from > Len(body) THEN <<>>
        ELSE <<SubSeq(body, from, upto)>> \o Pieces(body, cuts, upto + 1)

\* Every way to deliver body in one or more non-empty pieces.
Splits(body) == {Pieces(body, cuts, 1) : cuts \in SUBSET (1..(Len(body) - 1))}

RECURSIVE Concat(_)
Concat(seqs) == IF seqs = <<>> THEN <<>> ELSE Head(seqs) \o Concat(Tail(seqs))

ReplyScripts ==
    { [connect |-> FALSE, deliveries |-> <<>>, end |-> "close"] }
    \cup { [connect |-> TRUE, deliveries |-> d, end |-> e] :
             d \in {<<>>} \cup UNION {Splits(b) : b \in ReplyBodies},
             e \in {"close", "silent"} }

(***************************************************************************)
(* Outcome of one send_command call: the value it returns (or the          *)
(* exception it lets out), what it did on the network and, for a file      *)
(* transfer, what it wrote.                                                *)
(*   exc        exception raised inside the body ("" when none)            *)
(*   connected  the connection was established                             *)
(*   sent       the envelope was written to the socket                     *)
(*   open       the socket is still open (never closed by the call)        *)
(*   reads      number of recv() calls made                                *)
(*   path       local file opened for writing ("" when none)               *)
(*   writes     intervals <<first, last>> of content bytes written, in     *)
(*              order                                                      *)
(*   reqs       for every content recv: <<bytes requested, bytes received  *)
(*              before>>                                                   *)
(***************************************************************************)
Outcome(exc, val, connected, sent, open, reads) ==
    [exc |-> exc, val |-> val, connected |-> connected, sent |-> sent,
     open |-> open, reads |-> reads, path |-> "", writes |-> <<>>, reqs |-> <<>>]

Min(a, b) == IF a <= b THEN a ELSE b

\* A read loop that keeps only the latest chunk instead of accumulating.
RECURSIVE ListFilesReadLatestChunk(_, _, _)
ListFilesReadLatestChunk(script, i, acc) ==
    IF i > Len(script.deliveries)
    THEN [data |-> acc, reads |-> i]
    ELSE LET data == script.deliveries[i]
         IN  IF ParseJSON(data).err = ""
             THEN [data |-> data, reads |-> i]
             ELSE ListFilesReadLatestChunk(script, i + 1, data)

\* The accumulate-until-it-parses loop of LIST_FILES (lines 110-124):
\* the response_data the loop leaves and the recv() calls it made.
RECURSIVE ListFilesRead(_, _, _)
ListFilesRead(script, i, acc) ==
    IF i > Len(script.deliveries)
    THEN [data |-> acc, reads |-> i]      \* b"" or socket.timeout: break
    ELSE LET data == acc \o script.deliveries[i]
         IN  IF ParseJSON(data).err = ""
             THEN [data |-> data, reads |-> i]
             ELSE ListFilesRead(script, i + 1, data)

\* Lines 128-143: what send_command returns for the response_data read.
ReplyResult(command, data, reads) ==
    IF data = <<>>
    THEN Outcome("", PyTrue, TRUE, TRUE, FALSE, reads)            \* sock.close(); return True
    ELSE LET p == ParseJSON(data)
         IN  IF p.err # ""
             THEN Outcome(p.err, PyNone, TRUE, TRUE, TRUE, reads)
             ELSE IF command = "STOP_RECORDING" /\ p.val.t = "num"
             THEN Outcome("TypeError", PyNone, TRUE, TRUE, TRUE, reads)
             ELSE IF command = "STOP_RECORDING" /\ HasFileId(p.val)
                     /\ FileIdOf(p.val) # ""
             THEN Outcome("", PyStr(FileIdOf(p.val)), TRUE, TRUE, TRUE, reads)
             ELSE Outcome("", p.val, TRUE, TRUE, TRUE, reads)

\* Lines 105-126: the read of the reply of a non-transfer command.
ReadReply(command, script) ==
    IF command = "LIST_FILES"
    THEN LET r == ListFilesRead(script, 1, <<>>)
         IN  ReplyResult(command, r.data, r.reads)
    ELSE IF script.deliveries # <<>>
    THEN ReplyResult(command, script.deliveries[1], 1)            \* one recv(4096)
    ELSE IF script.end = "close"
    THEN ReplyResult(command, <<>>, 1)
    ELSE Outcome("timeout", PyNone, TRUE, TRUE, TRUE, 1)

(***************************************************************************)
(* File transfer.  A transfer script says what a device sends on one       *)
(* GET_VIDEO connection:                                                   *)
(*   prefix    the bytes of the 4-byte big-endian length it sends          *)
(*   header    the metadata block it sends (JSON units)                    *)
(*   fileName, fileSize  the values of the metadata members                *)
(*   content   the number of raw content bytes it sends                    *)
(*   cuts      stream positions after which a delivery ends: one recv      *)
(*             never returns bytes from both sides of a cut                *)
(*   end       what follows the last byte sent ("close" or "silent")       *)
(* A stream position is a byte count from the start of the reply.          *)
(***************************************************************************)
PrefixLen == 4

RecvChunk == 8192

GoodHeader == <<"{", "name", "size", "}">>

\* The 4 bytes of struct.pack('>I', n).
Pack(n) == << (n \div 16777216) % 256, (n \div 65536) % 256, (n \div 256) % 256, n % 256 >>

\* struct.unpack('>I', b)[0]  (line 160)
Unpack(b) == ((b[1] * 256 + b[2]) * 256 + b[3]) * 256 + b[4]

StreamLen(script) == Len(script.prefix) + Len(script.header) + script.content

\* The byte at stream position p, for p after the length prefix.
StreamUnit(script, p) ==
    IF p - Len(script.prefix) <= Len(script.header)
    THEN script.header[p - Len(script.prefix)]
    ELSE "c"

\* sock.recv(n) with pos bytes already consumed: the number of bytes it
\* returns, 0 when the peer has closed, -1 when it raises socket.timeout.
Recv(script, pos, n) ==
    LET total == StreamLen(script)
        ends == {c \in script.cuts : c > pos /\ c < total} \cup {total}
        next == CHOOSE c \in ends : \A d \in ends : c <= d
    IN  IF pos >= total
        THEN (IF script.end = "close" THEN 0 ELSE -1)
        ELSE Min(n, next - pos)

\* Lines 164-169: the metadata read loop; got bytes read so far.
RECURSIVE ReadHeader(_, _, _, _)
ReadHeader(script, header_size, got, reads) ==
    IF got >= header_size
    THEN [got |-> got, reads |-> reads, timeout |-> FALSE]
    ELSE LET k == Recv(script, PrefixLen + got, header_size - got)
         IN  IF k = -1 THEN [got |-> got, reads |-> reads + 1, timeout |-> TRUE]
             ELSE IF k = 0 THEN [got |-> got, reads |-> reads + 1, timeout |-> FALSE]
             ELSE ReadHeader(script, header_size, got + k, reads + 1)

\* A counter that adds the bytes requested instead of the bytes received.
AdvanceByRequest(bytes_received, chunk_size, k) == bytes_received + chunk_size

\* bytes_received after a chunk of k bytes was written (line 199).
Advance(bytes_received, chunk_size, k) == bytes_received + k

\* Lines 193-199: the content loop.  start is the stream position of the
\* first content byte.
RECURSIVE ReadContent(_, _, _, _, _, _, _)
ReadContent(script, start, file_size, bytes_received, pos, writes, reqs) ==
    IF bytes_received >= file_size
    THEN [received |-> bytes_received, writes |-> writes, reqs |-> reqs, timeout |-> FALSE]
    ELSE LET chunk_size == Min(RecvChunk, file_size - bytes_received)
             k == Recv(script, pos, chunk_size)
             asked == Append(reqs, <<chunk_size, bytes_received>>)
         IN  IF k = -1
             THEN [received |-> bytes_received, writes |-> writes, reqs |-> asked,
                   timeout |-> TRUE]
             ELSE IF k = 0
             THEN [received |-> bytes_received, writes |-> writes, reqs |-> asked,
                   timeout |-> FALSE]
             ELSE ReadContent(script, start, file_size,
                              Advance(bytes_received, chunk_size, k), pos + k,
                              Append(writes, <<pos - start + 1, pos - start + k>>), asked)

\* An address is its sequence of labels: <<"10", "0", "0", "1">> is 10.0.0.1.
RECURSIVE Join(_, _)
Join(labels, sep) ==
    IF Len(labels) = 0 THEN ""
    ELSE IF Len(labels) = 1 THEN labels[1]
    ELSE labels[1] \o sep \o Join(Tail(labels), sep)

\* Lines 180-186: device_ip.replace('.', '_') + "_" + file_name under
\* ~/Downloads/multiCam.
LocalPath(device_ip, file_name) ==
    "~/Downloads/multiCam/" \o Join(device_ip, "_") \o "_" \o file_name

\* The value the transfer returns when the content loop ends without an
\* exception (lines 205-207).
TransferResult(local_path, bytes_received, file_size) == PyStr(local_path)

\* _handle_file_download (lines 149-212).
HandleFileDownload(script, device_ip) ==
    LET k4 == Recv(script, 0, PrefixLen)
        failed(reads, path, writes, reqs) ==       \* except Exception: close, return False
            [Outcome("", PyFalse, TRUE, TRUE, FALSE, reads)
                EXCEPT !.path = path, !.writes = writes, !.reqs = reqs]
    IN  IF k4 = -1 THEN failed(1, "", <<>>, <<>>)
        ELSE IF k4 # PrefixLen
        THEN Outcome("", PyFalse, TRUE, TRUE, TRUE, 1)            \* lines 156-158: no close
        ELSE
        LET header_size == Unpack(script.prefix)
            h == ReadHeader(script, header_size, 0, 1)
            header_data == [i \in 1..h.got |-> StreamUnit(script, PrefixLen + i)]
            p == ParseJSON(header_data)
        IN  IF h.timeout \/ p.err # "" \/ p.val.t # "dict"
               \/ ~ ({"name", "size"} \subseteq p.val.f)
            THEN failed(h.reads, "", <<>>, <<>>)
            ELSE
            LET local_path == LocalPath(device_ip, script.fileName)
                file_size == script.fileSize
                start == PrefixLen + h.got
                c == ReadContent(script, start, file_size, 0, start, <<>>, <<>>)
            IN  IF c.timeout
                THEN failed(h.reads + Len(c.reqs), local_path, c.writes, c.reqs)
                ELSE [Outcome("", TransferResult(local_path, c.received, file_size),
                              TRUE, TRUE, FALSE, h.reads + Len(c.reqs))
                         EXCEPT !.path = local_path, !.writes = c.writes, !.reqs = c.reqs]

\* A handler that catches socket errors only.
CatchSocketErrorsOnly(o) ==
    IF o.exc = "" THEN o
    ELSE IF o.exc \in {"ConnectionRefusedError", "timeout"} THEN [o EXCEPT !.val = PyFalse]
    ELSE [o EXCEPT !.val = PyRaise(o.exc)]

\* The except clause of send_command (lines 145-147).
CatchAll(o) == IF o.exc = "" THEN o ELSE [o EXCEPT !.val = PyFalse]

\* An envelope stamped with the clock whatever the caller passed.
EnvelopeTimestampNow(timestamp, now) == now

\* The timestamp of the envelope (line 76): timestamp or time.time().
\* An optional argument is <<>> (None) or <<value>>.
EnvelopeTimestamp(timestamp, now) ==
    IF timestamp # <<>> /\ timestamp[1] # 0 THEN timestamp[1] ELSE now

\* send_command (lines 70-147).
send_command(device_ip, command, script) ==
    CatchAll(
        IF ~ script.connect
        THEN Outcome("ConnectionRefusedError", PyNone, FALSE, FALSE, FALSE, 0)
        ELSE IF command = "GET_VIDEO"
        THEN HandleFileDownload(script, device_ip)
        ELSE ReadReply(command, script))

(***************************************************************************)
(* Bounds of the model.                                                    *)
(***************************************************************************)
\* Size of a small file; the large file has RecvChunk + SmallFile bytes.
SmallFile == 3

FileSizes == {0, SmallFile, RecvChunk + SmallFile}

Addrs == { <<"10", "0", "0", "1">>, <<"10", "0", "0", "2">> }

\* Stream positions where a delivery may end: inside and after the length
\* prefix, inside and after the metadata block, inside the content.
CutPoints(content) ==
    {2, PrefixLen, PrefixLen + 2, PrefixLen + Len(GoodHeader),
     PrefixLen + Len(GoodHeader) + 1} \cup
    (IF content > RecvChunk THEN {PrefixLen + Len(GoodHeader) + RecvChunk - 2} ELSE {})

\* Frames with a valid length prefix and metadata block, carrying all of
\* the declared content or less.
FramedScripts ==
    { [connect |-> TRUE, prefix |-> Pack(Len(GoodHeader)), header |-> GoodHeader,
       fileName |-> "a.mov", fileSize |-> fs, content |-> ct, cuts |-> cu, end |-> e] :
         fs \in FileSizes, ct \in FileSizes \cup {1}, cu \in SUBSET CutPoints(RecvChunk + 1),
         e \in {"close", "silent"} }

\* Frames whose length prefix or metadata block is short or does not decode.
BrokenScripts ==
    { [connect |-> TRUE, prefix |-> pf, header |-> hd, fileName |-> "a.mov",
       fileSize |-> SmallFile, content |-> ct, cuts |-> cu, end |-> e] :
         pf \in {<<>>, <<0, 0>>}, hd \in {<<>>}, ct \in {0}, cu \in {{}},
         e \in {"close", "silent"} }
    \cup
    { [connect |-> TRUE, prefix |-> pf, header |-> hd, fileName |-> "a.mov",
       fileSize |-> fs, content |-> ct, cuts |-> cu, end |-> e] :
         fs \in {0, SmallFile},
         pf \in {Pack(3), Pack(4), Pack(6)},
         hd \in {GoodHeader, <<"{", "name", "}">>, <<"{", "size", "}">>,
                 <<"{", "name", "size">>, <<"str">>, <<"bad", "name", "}">>, <<>>},
         ct \in {0, SmallFile}, cu \in {{}, {PrefixLen + 1}},
         e \in {"close", "silent"} }

TransferScripts ==
    { [connect |-> FALSE, prefix |-> <<>>, header |-> <<>>, fileName |-> "a.mov",
       fileSize |-> 0, content |-> 0, cuts |-> {}, end |-> "close"] }
    \cup { s \in FramedScripts : s.fileSize >= s.content \/ s.content = SmallFile }
    \cup BrokenScripts

Commands == {"START_RECORDING", "STOP_RECORDING", "DEVICE_STATUS", "LIST_FILES", "GET_VIDEO"}

ScriptsFor(command) == IF command = "GET_VIDEO" THEN TransferScripts ELSE ReplyScripts

(***************************************************************************)
(* State.                                                                  *)
(***************************************************************************)
VARIABLES
    ch_pc,       \* command channel exercised alone: "idle", "called", "returned"
    ch_call,     \* the arguments of the send_command call and the peer's script
    ch_ret,      \* the Outcome of the call
    files,       \* local storage: path -> intervals of content bytes written
    discovered_devices,     \* the registry: entries [name, ip, port] in insertion order
    now,                    \* time.time()
    bc,                     \* per caller: its send_command_to_all invocation
    app,                    \* per caller: its start_recording / stop_recording call
    recording_in_progress,  \* MultiCamApp.recording_in_progress
    dispatched,             \* command of the latest broadcast the orchestrator called
    disc,                   \* the latest runs of discover_devices (see NoDiscovery)
    reading,                \* a send_command call followed read by read (see NoReading)
    sockets      \* connections the calls of the channel opened and nothing has closed yet

chVars == <<ch_pc, ch_call, ch_ret, files, reading, sockets>>

coreVars == <<discovered_devices, now, bc, app, recording_in_progress, dispatched, disc>>

vars == <<ch_pc, ch_call, ch_ret, files, discovered_devices, now, bc, app,
          recording_in_progress, dispatched, disc, reading, sockets>>

NoFiles == [p \in {} |-> <<>>]

\* The file system after a call with outcome o: open(local_path, 'wb')
\* truncates, f.write appends.
WriteFile(fs, o) ==
    IF o.path = "" THEN fs
    ELSE [p \in DOMAIN fs \cup {o.path} |-> IF p = o.path THEN o.writes ELSE fs[p]]

\* A send_command call for a command other than GET_VIDEO, followed through
\* its blocking calls:
\*   pc       "idle", "connect" (line 92), "recv" (lines 111 and 126),
\*            "returned"
\*   command  the command sent
\*   data     response_data, as lexical units (a run of whitespace is one
\*            unit however long it is)
\*   waited   seconds the blocking call under way has waited
\*   ret      the value returned
NoReading == [pc |-> "idle", command |-> "", data |-> <<>>, waited |-> 0, ret |-> PyNone]

\* sock.settimeout(30), line 88.
SendTimeout == 30

\* sock.settimeout(10), line 107.
ListTimeout == 10

\* The timeout of the blocking call under way.
TimeoutOf(r) ==
    IF r.pc = "recv" /\ r.command = "LIST_FILES" THEN ListTimeout ELSE SendTimeout

\* Units a device delivers in one piece.
ReplyUnits == {"{", "}", "ok", "str", "bad", "ws"}

\* Units of reply the model lets response_data hold.
MaxReply == 3

\* response_data += chunk
Accumulate(data, chunk) ==
    IF data # <<>> /\ data[Len(data)] = "ws" /\ chunk[1] = "ws"
    THEN data \o Tail(chunk)
    ELSE data \o chunk

\* send_command returns (or catches, lines 145-147) the outcome o.
ReadReturn(r, o) == [r EXCEPT !.pc = "returned", !.ret = CatchAll(o).val]

\* send_command is called: lines 76-92, up to the connect.
ReadCall(command) ==
    /\ reading.pc = "idle"
    /\ reading' = [NoReading EXCEPT !.pc = "connect", !.command = command]
    /\ UNCHANGED <<ch_pc, ch_call, ch_ret, files, sockets>>
    /\ UNCHANGED coreVars

\* A second passes while connect or recv blocks.
ReadWait ==
    /\ reading.pc \in {"connect", "recv"}
    /\ reading.waited < TimeoutOf(reading)
    /\ reading' = [reading EXCEPT !.waited = @ + 1]
    /\ UNCHANGED <<ch_pc, ch_call, ch_ret, files, sockets>>
    /\ UNCHANGED coreVars

\* Line 92: the connection is established (and the envelope sent, line
\* 98), or connect raises: refused at once, timed out at the latest after
\* SendTimeout.
ReadConnect(established) ==
    /\ reading.pc = "connect"
    /\ established => reading.waited < TimeoutOf(reading)
    /\ reading' =
          IF established THEN [reading EXCEPT !.pc = "recv", !.waited = 0]
          ELSE ReadReturn(reading,
                          Outcome(IF reading.waited < TimeoutOf(reading)
                                  THEN "ConnectionRefusedError" ELSE "timeout",
                                  PyNone, FALSE, FALSE, FALSE, 0))
    /\ UNCHANGED <<ch_pc, ch_call, ch_ret, files, sockets>>
    /\ UNCHANGED coreVars

\* recv returns the bytes chunk: lines 111-122 for LIST_FILES (the loop
\* leaves when response_data parses and reads again when it does not),
\* line 126 for the other commands.
ReadDeliver(chunk) ==
    /\ reading.pc = "recv"
    /\ LET data == Accumulate(reading.data, chunk)
       IN  /\ Len(data) <= MaxReply
           /\ reading' =
                 IF reading.command = "LIST_FILES" /\ ParseJSON(data).err # ""
                 THEN [reading EXCEPT !.data = data, !.waited = 0]
                 ELSE ReadReturn(reading, ReplyResult(reading.command, data, 0))
    /\ UNCHANGED <<ch_pc, ch_call, ch_ret, files, sockets>>
    /\ UNCHANGED coreVars

\* recv returns b"": the device closed the connection (lines 112-113).
ReadClose ==
    /\ reading.pc = "recv"
    /\ reading' = ReadReturn(reading, ReplyResult(reading.command, reading.data, 0))
    /\ UNCHANGED <<ch_pc, ch_call, ch_ret, files, sockets>>
    /\ UNCHANGED coreVars

\* recv raises socket.timeout: the LIST_FILES loop breaks (lines 123-124),
\* any other command leaves through the except clause.
ReadTimeout ==
    /\ reading.pc = "recv"
    /\ reading.waited = TimeoutOf(reading)
    /\ reading' =
          IF reading.command = "LIST_FILES"
          THEN ReadReturn(reading, ReplyResult(reading.command, reading.data, 0))
          ELSE ReadReturn(reading, Outcome("timeout", PyNone, TRUE, TRUE, TRUE, 0))
    /\ UNCHANGED <<ch_pc, ch_call, ch_ret, files, sockets>>
    /\ UNCHANGED coreVars

\* The caller has taken the value returned.
ReadForget ==
    /\ reading.pc = "returned"
    /\ reading' = NoReading
    /\ UNCHANGED <<ch_pc, ch_call, ch_ret, files, sockets>>
    /\ UNCHANGED coreVars

\* A blocking call of the send under way makes progress.
ReadStep ==
    \/ ReadWait
    \/ \E established \in BOOLEAN : ReadConnect(established)
    \/ \E unit \in ReplyUnits : ReadDeliver(<<unit>>)
    \/ ReadClose
    \/ ReadTimeout

InitChannel ==
    /\ ch_pc = "idle"
    /\ ch_call = [ip |-> <<"10", "0", "0", "1">>, command |-> "DEVICE_STATUS",
                  script |-> [connect |-> FALSE, deliveries |-> <<>>, end |-> "close"]]
    /\ ch_ret = Outcome("", PyNone, FALSE, FALSE, FALSE, 0)
    /\ files = NoFiles
    /\ reading = NoReading
    /\ sockets = 0

\* A caller invokes send_command on a device with some behaviour.
ChCall ==
    /\ ch_pc = "idle"
    /\ \E ip \in Addrs, command \in Commands :
         \E script \in ScriptsFor(command) :
            ch_call' = [ip |-> ip, command |-> command, script |-> script]
    /\ ch_pc' = "called"
    /\ UNCHANGED <<ch_ret, files, reading, sockets>>
    /\ UNCHANGED coreVars

\* send_command runs to its return.
ChRun ==
    /\ ch_pc = "called"
    /\ ch_ret' = send_command(ch_call.ip, ch_call.command, ch_call.script)
    /\ files' = WriteFile(files, ch_ret')
    /\ ch_pc' = "returned"
    /\ sockets' = sockets + (IF ch_ret'.open THEN 1 ELSE 0)
    /\ UNCHANGED <<ch_call, reading>>
    /\ UNCHANGED coreVars

\* Connections the model lets stay open at once.
MaxOpen == 2

\* The caller takes the value returned, drops it, and is free to call again.
ChAgain ==
    /\ ch_pc = "returned"
    /\ sockets < MaxOpen
    /\ ch_pc' = "idle"
    /\ ch_call' = [ip |-> <<"10", "0", "0", "1">>, command |-> "DEVICE_STATUS",
                   script |-> [connect |-> FALSE, deliveries |-> <<>>, end |-> "close"]]
    /\ ch_ret' = Outcome("", PyNone, FALSE, FALSE, FALSE, 0)
    /\ UNCHANGED <<files, reading, sockets>>
    /\ UNCHANGED coreVars

\* A socket object that send_command returned without closing is no longer
\* referenced: the runtime closes it when it finalises the object, which
\* the language leaves to the implementation (at the return with reference
\* counting, at some later collection otherwise).
Finalize ==
    /\ ch_pc # "called"
    /\ sockets > 0
    /\ sockets' = sockets - 1
    /\ UNCHANGED <<ch_pc, ch_call, ch_ret, files, reading>>
    /\ UNCHANGED coreVars

(***************************************************************************)
(* The device registry (MultiCamController.discovered_devices), a dict in  *)
(* insertion order.                                                        *)
(***************************************************************************)
MaxDevices == 2

DeviceNames == {"cam1", "cam2"}

DefaultPort == 8080

Names(reg) == {reg[i].name : i \in 1..Len(reg)}

IndexOf(reg, name) == CHOOSE i \in 1..Len(reg) : reg[i].name = name

\* A registry kept as a list: every report appends an entry.
UpsertAppend(reg, name, ip, port) ==
    Append(reg, [name |-> name, ip |-> ip, port |-> port])

\* discovered_devices[name] = {...}: replaces in place or appends.
Upsert(reg, name, ip, port) ==
    LET e == [name |-> name, ip |-> ip, port |-> port]
    IN  IF name \in Names(reg) THEN [reg EXCEPT ![IndexOf(reg, name)] = e]
        ELSE Append(reg, e)

\* A removal that also drops every entry inserted before the one removed.
DeleteThrough(reg, name) ==
    IF \E i \in 1..Len(reg) : reg[i].name = name
    THEN SubSeq(reg, (CHOOSE i \in 1..Len(reg) : reg[i].name = name) + 1, Len(reg))
    ELSE reg

\* del discovered_devices[name]
Delete(reg, name) == SelectSeq(reg, LAMBDA e : e.name # name)

\* The history of discover_devices runs:
\*   runs     consecutive runs over the same external device set, with no
\*            other change of the registry between them
\*   present  that device set: the services on the network, name -> info
\*   first    the registry the first of these runs left
NoDiscovery == [runs |-> 0, present |-> <<>>, first |-> <<>>]

\* What a change of the registry to reg means for the invocation b of
\* send_command_to_all: its dict iterator keeps its place in the entries
\* (an entry deleted behind it moves every later entry down by one in
\* insertion order), and the contents the registry had while the call ran
\* are remembered in snaps.  gone is the position of the entry deleted, 0
\* when none was.
Observe(b, reg, gone) ==
    IF b.pc \in {"entry", "loop", "join"}
    THEN [b EXCEPT !.snaps = @ \cup {{reg[i].name : i \in 1..Len(reg)}},
                   !.churn = @ + 1,
                   !.idx = IF b.pc = "loop" /\ b.di_used # -1 /\ gone # 0 /\ gone < @
                           THEN @ - 1 ELSE @]
    ELSE b

\* No call of the controller or the application is in progress.
Quiescent ==
    \A c \in DOMAIN bc : bc[c].pc = "none" /\ app[c].pc = "idle"

\* MultiCamListener.add_service (lines 40-50); info is <<>> when the
\* service does not resolve.
add_service(name, info) ==
    /\ discovered_devices' =
          IF info = <<>> THEN discovered_devices
          ELSE Upsert(discovered_devices, name, info[1].ip, info[1].port)
    /\ discovered_devices' # discovered_devices
    /\ bc' = [c \in DOMAIN bc |-> Observe(bc[c], discovered_devices', 0)]
    /\ UNCHANGED <<now, app, recording_in_progress>>
    /\ UNCHANGED <<chVars, dispatched>>
    /\ disc' = NoDiscovery

\* MultiCamListener.remove_service (lines 35-38).
remove_service(name) ==
    /\ discovered_devices' =
          IF name \in Names(discovered_devices) THEN Delete(discovered_devices, name)
          ELSE discovered_devices
    /\ discovered_devices' # discovered_devices
    /\ bc' = [c \in DOMAIN bc |->
                Observe(bc[c], discovered_devices', IndexOf(discovered_devices, name))]
    /\ UNCHANGED <<now, app, recording_in_progress>>
    /\ UNCHANGED <<chVars, dispatched>>
    /\ disc' = NoDiscovery

\* manual_connect (lines 317-323).
manual_connect(ip, port) ==
    /\ discovered_devices' = Upsert(discovered_devices, "manual-" \o Join(ip, "."), ip, port)
    /\ discovered_devices' # discovered_devices
    /\ bc' = [c \in DOMAIN bc |-> Observe(bc[c], discovered_devices', 0)]
    /\ UNCHANGED <<now, app, recording_in_progress>>
    /\ UNCHANGED <<chVars, dispatched>>
    /\ disc' = NoDiscovery

\* The address a service resolves to while the network does not change.
StableInfo(name) ==
    IF name = "cam1" THEN [ip |-> <<"10", "0", "0", "1">>, port |-> 8080]
    ELSE [ip |-> <<"10", "0", "0", "2">>, port |-> 8081]

\* The addresses the services resolve to while the network does not change.
StableInfos == [name \in DeviceNames |-> {StableInfo(name)}]

\* The registry changes between calls: discovery reports services that
\* resolve to one of infos[name], and addresses of addrs are added by hand.
\* The model keeps at most cap entries.
RegistryStep(infos, addrs, cap) ==
    /\ Quiescent
    /\ \/ \E name \in DeviceNames : \E info \in {<<>>} \cup {<<i>> : i \in infos[name]} :
             add_service(name, info)
       \/ \E name \in DeviceNames : remove_service(name)
       \/ \E ip \in addrs : manual_connect(ip, DefaultPort)
    /\ Len(discovered_devices') <= cap

\* Addresses a service can resolve to when the network changes.
MovingInfos ==
    [name \in DeviceNames |->
        {StableInfo(name), [ip |-> <<"10", "0", "0", "3">>, port |-> 8082]}]

\* The add_service calls of one browse, in the order the browser makes them.
RECURSIVE AddFold(_, _)
AddFold(reg, events) ==
    IF events = <<>> THEN reg
    ELSE AddFold(IF Head(events).info = <<>> THEN reg
                 ELSE Upsert(reg, Head(events).name,
                             Head(events).info[1].ip, Head(events).info[1].port),
                 Tail(events))

\* The orders in which the services of S can be reported.
Orders(S) ==
    {o \in [1..Cardinality(S) -> S] : \A i, j \in 1..Cardinality(S) : o[i] = o[j] => i = j}

\* The sets of services that can be on the network: each present service
\* resolves to <<info>>, or to <<>> when get_service_info gives None.
Networks(infos) ==
    UNION {[S -> {<<>>} \cup {<<i>> : i \in UNION {infos[n] : n \in S}}] :
              S \in SUBSET DeviceNames}

\* Consecutive runs of discover_devices the model follows.
MaxRuns == 2

\* discover_devices (lines 27-68): a new browser reports every service of
\* the network present to the listener, in the order order, during the
\* time.sleep of line 59; the registry is never cleared, and the result is
\* list(self.discovered_devices.values()).
discover_devices(present, order) ==
    /\ Quiescent
    /\ disc.runs >= 1 /\ disc.present = present => disc.runs < MaxRuns
    /\ discovered_devices' =
          AddFold(discovered_devices,
                  [i \in 1..Len(order) |-> [name |-> order[i], info |-> present[order[i]]]])
    /\ disc' = IF disc.runs >= 1 /\ disc.present = present
               THEN [disc EXCEPT !.runs = @ + 1]
               ELSE [runs |-> 1, present |-> present, first |-> discovered_devices']
    /\ UNCHANGED <<now, bc, app, recording_in_progress>>
    /\ UNCHANGED <<chVars, dispatched>>

\* Registry changes the model lets happen during one call.
MaxChurn == 2

\* The registry changes at any moment: the discovery thread (and a manual
\* connect) run concurrently with the calls of the controller.
LiveRegistryStep(infos, addrs, cap) ==
    /\ \A c \in DOMAIN bc : bc[c].churn < MaxChurn
    /\ \/ \E name \in DeviceNames : \E info \in {<<>>} \cup {<<i>> : i \in infos[name]} :
             add_service(name, info)
       \/ \E name \in DeviceNames : remove_service(name)
       \/ \E ip \in addrs : manual_connect(ip, DefaultPort)
    /\ Len(discovered_devices') <= cap

(***************************************************************************)
(* The clock.                                                              *)
(***************************************************************************)
MaxClock == 2

Tick ==
    /\ now < MaxClock
    /\ now' = now + 1
    /\ UNCHANGED <<discovered_devices, bc, app, recording_in_progress>>
    /\ UNCHANGED <<chVars, dispatched, disc>>

(***************************************************************************)
(* The broadcast coordinator, send_command_to_all (lines 214-262).  Each   *)
(* caller c has one invocation record bc[c]:                               *)
(*   pc         "none", "entry", "loop", "join", "done", or "raised" when  *)
(*              an exception left the call                                 *)
(*   command, timestamp   the arguments (timestamp <<>> is None)           *)
(*   sync       sync_timestamp                                             *)
(*   idx        position of the for loop in the registry                   *)
(*   di_used    size of the registry when the loop's iterator was made,    *)
(*              -1 before                                                  *)
(*   snaps      contents (names) the registry had while the call ran       *)
(*   churn      number of registry changes while the call ran              *)
(*   started    names whose thread was started                             *)
(*   order      the names in the order their threads were started          *)
(*   finished   names whose thread has stored its result and ended         *)
(*   args       name -> the (ip, port) handed to its thread                *)
(*   results    the results dict                                           *)
(*   sent       name -> the send_command calls made for it, each with the  *)
(*              timestamp of its envelope and the peer's script            *)
(*   ret        the value returned: none (None) or a map                   *)
(***************************************************************************)
Callers == {"ui1", "ui2"}

SyncDelay == 3

Timestamps == {<<>>, <<0>>, <<7>>}

BroadcastCommands == Commands \ {"GET_VIDEO"}

\* Peer behaviours met by a broadcast: refused, silent, closed at once, and
\* replies that decode, do not decode, or lack the fileId.
BroadcastScripts ==
    { s \in ReplyScripts :
        Len(s.deliveries) <= 1 /\ s.end = (IF s.deliveries = <<>> /\ s.connect
                                           THEN s.end ELSE "close")
        /\ (s.deliveries = <<>> \/ s.deliveries[1] \in
              {<<"{", "fid", "}">>, <<"{", "ok", "}">>, <<"bad">>, <<"str">>}) }

NoBroadcast ==
    [pc |-> "none", command |-> "", timestamp |-> <<>>, sync |-> 0, idx |-> 0,
     di_used |-> -1, snaps |-> {}, churn |-> 0, order |-> <<>>,
     started |-> {}, finished |-> {}, args |-> <<>>, results |-> <<>>, sent |-> <<>>,
     ret |-> [none |-> TRUE, map |-> <<>>]]

Put(f, k, v) == [x \in DOMAIN f \cup {k} |-> IF x = k THEN v ELSE f[x]]

\* An instant that grows with the number of devices.
SyncTimestampScaled(command, timestamp, sync_delay, clock) ==
    IF command = "START_RECORDING" /\ timestamp = <<>>
    THEN clock + sync_delay * Len(discovered_devices)
    ELSE IF timestamp # <<>> /\ timestamp[1] # 0 THEN timestamp[1] ELSE clock

\* Lines 221-226.
SyncTimestamp(command, timestamp, sync_delay, clock) ==
    IF command = "START_RECORDING" /\ timestamp = <<>>
    THEN clock + sync_delay
    ELSE IF timestamp # <<>> /\ timestamp[1] # 0 THEN timestamp[1] ELSE clock

\* The call send_command_to_all(command, timestamp) is made.
Invoke(c, command, timestamp) ==
    bc' = [bc EXCEPT ![c] = [NoBroadcast EXCEPT !.pc = "entry", !.command = command,
                                                !.timestamp = timestamp,
                                                !.snaps = {Names(discovered_devices)}]]

\* Lines 216-232: the registry check and the synchronized instant.
BcEnter(c) ==
    /\ bc[c].pc = "entry"
    /\ bc' = IF discovered_devices = <<>>
             THEN [bc EXCEPT ![c].pc = "done"]
             ELSE [bc EXCEPT ![c].pc = "loop", ![c].idx = 1,
                             ![c].sync = SyncTimestamp(bc[c].command, bc[c].timestamp,
                                                       SyncDelay, now)]
    /\ UNCHANGED <<discovered_devices, now, app, recording_in_progress>>
    /\ UNCHANGED <<chVars, dispatched, disc>>

\* The for loop of line 238 iterates the registry itself.  Its iterator
\* is made when the loop begins; every step first compares the size of the
\* registry with the size it had then.
SizeKept(b, reg) == b.di_used = -1 \/ b.di_used = Len(reg)

\* A loop that sends to one device at a time: an iteration begins only
\* when the thread of the iteration before has finished.
BcSpawnInTurn(c) ==
    /\ bc[c].pc = "loop"
    /\ SizeKept(bc[c], discovered_devices)
    /\ bc[c].idx <= Len(discovered_devices)
    /\ bc[c].started \subseteq bc[c].finished
    /\ LET e == discovered_devices[bc[c].idx]
       IN  bc' = [bc EXCEPT ![c].idx = @ + 1,
                            ![c].di_used = Len(discovered_devices),
                            ![c].order = Append(@, e.name),
                            ![c].started = @ \cup {e.name},
                            ![c].args = Put(@, e.name, [ip |-> e.ip, port |-> e.port]),
                            ![c].sent = Put(@, e.name, <<>>)]
    /\ UNCHANGED <<discovered_devices, now, app, recording_in_progress>>
    /\ UNCHANGED <<chVars, dispatched, disc>>

\* Lines 238-244: one iteration of the for loop starts one thread.
BcSpawn(c) ==
    /\ bc[c].pc = "loop"
    /\ SizeKept(bc[c], discovered_devices)
    /\ bc[c].idx <= Len(discovered_devices)
    /\ LET e == discovered_devices[bc[c].idx]
       IN  bc' = [bc EXCEPT ![c].idx = @ + 1,
                            ![c].di_used = Len(discovered_devices),
                            ![c].order = Append(@, e.name),
                            ![c].started = @ \cup {e.name},
                            ![c].args = Put(@, e.name, [ip |-> e.ip, port |-> e.port]),
                            ![c].sent = Put(@, e.name, <<>>)]
    /\ UNCHANGED <<discovered_devices, now, app, recording_in_progress>>
    /\ UNCHANGED <<chVars, dispatched, disc>>

\* The for loop ends.
BcLoopEnd(c) ==
    /\ bc[c].pc = "loop"
    /\ SizeKept(bc[c], discovered_devices)
    /\ bc[c].idx > Len(discovered_devices)
    /\ bc' = [bc EXCEPT ![c].pc = "join"]
    /\ UNCHANGED <<discovered_devices, now, app, recording_in_progress>>
    /\ UNCHANGED <<chVars, dispatched, disc>>

\* Line 238 when the registry has changed size since the loop began: the
\* iterator raises RuntimeError (dictionary changed size during iteration),
\* which leaves send_command_to_all; the threads already started run on.
BcFault(c) ==
    /\ bc[c].pc = "loop"
    /\ ~ SizeKept(bc[c], discovered_devices)
    /\ bc' = [bc EXCEPT ![c].pc = "raised"]
    /\ UNCHANGED <<discovered_devices, now, app, recording_in_progress>>
    /\ UNCHANGED <<chVars, dispatched, disc>>

\* Threads that store into one result map shared by every invocation.
ThreadRunShared(c, name, scripts) ==
    /\ name \in bc[c].started \ bc[c].finished
    /\ \E script \in scripts :
         LET o == send_command(bc[c].args[name].ip, bc[c].command, script)
             envelope == [ts |-> EnvelopeTimestamp(<<bc[c].sync>>, now),
                          script |-> script]
         IN  bc' = [d \in DOMAIN bc |->
                      IF d = c
                      THEN [bc[c] EXCEPT !.results = Put(@, name, o.val),
                                         !.sent = Put(@, name, Append(@[name], envelope)),
                                         !.finished = @ \cup {name}]
                      ELSE IF bc[d].pc \in {"loop", "join"}
                           THEN [bc[d] EXCEPT !.results = Put(@, name, o.val)]
                           ELSE bc[d]]
    /\ UNCHANGED <<discovered_devices, now, app, recording_in_progress>>
    /\ UNCHANGED <<chVars, dispatched, disc>>

\* send_and_store_result (lines 234-236), the body of one thread: the
\* send_command call against a peer behaving as script, and the store.
ThreadRun(c, name, scripts) ==
    /\ name \in bc[c].started \ bc[c].finished
    /\ \E script \in scripts :
         LET o == send_command(bc[c].args[name].ip, bc[c].command, script)
             envelope == [ts |-> EnvelopeTimestamp(<<bc[c].sync>>, now),
                          script |-> script]
         IN  bc' = [bc EXCEPT ![c].results = Put(@, name, o.val),
                              ![c].sent = Put(@, name, Append(@[name], envelope)),
                              ![c].finished = @ \cup {name}]
    /\ UNCHANGED <<discovered_devices, now, app, recording_in_progress>>
    /\ UNCHANGED <<chVars, dispatched, disc>>

\* A barrier that waits for one thread only.
AllJoinedFirstOnly(b) == b.started = {} \/ b.finished # {}

\* Lines 246-248: every started thread has been joined.
AllJoined(b) == b.started \subseteq b.finished

\* Lines 250-262: the file ids for STOP_RECORDING, else the results.
ReturnValue(command, results) ==
    IF command = "STOP_RECORDING"
    THEN [n \in {m \in DOMAIN results : IsStr(results[m])} |-> results[n]]
    ELSE results

\* Lines 246-262: the join barrier and the return.
BcJoinReturn(c) ==
    /\ bc[c].pc = "join"
    /\ AllJoined(bc[c])
    /\ bc' = [bc EXCEPT ![c].pc = "done",
                        ![c].ret = [none |-> FALSE,
                                    map |-> ReturnValue(bc[c].command, bc[c].results)]]
    /\ UNCHANGED <<discovered_devices, now, app, recording_in_progress>>
    /\ UNCHANGED <<chVars, dispatched, disc>>

\* A caller broadcasts a command directly (as get_device_status does).
CallBroadcast(c) ==
    /\ app[c].pc = "idle"
    /\ bc[c].pc = "none"
    /\ \E command \in BroadcastCommands, timestamp \in Timestamps :
          Invoke(c, command, timestamp)
    /\ UNCHANGED <<discovered_devices, now, app, recording_in_progress>>
    /\ UNCHANGED <<chVars, dispatched, disc>>

\* The caller drops the value the broadcast returned (or the exception
\* it raised).
Forget(c) ==
    /\ app[c].pc = "idle"
    /\ bc[c].pc \in {"done", "raised"}
    /\ bc' = [bc EXCEPT ![c] = NoBroadcast]
    /\ UNCHANGED <<discovered_devices, now, app, recording_in_progress>>
    /\ UNCHANGED <<chVars, dispatched, disc>>

(***************************************************************************)
(* The upload collaborator (S3Controller).  ok is the set of paths whose   *)
(* upload succeeds, stuck the set of paths os.remove fails on.             *)
(***************************************************************************)
\* upload_batch (lines 147-195).
upload_batch(file_paths, fs, ok) ==
    LET up(p) == p \in DOMAIN fs /\ p \in ok
    IN  [success |-> \A i \in 1..Len(file_paths) : up(file_paths[i]),
         uploaded_files |-> SelectSeq(file_paths, up),
         failed_files |-> SelectSeq(file_paths, LAMBDA p : ~ up(p))]

\* delete_local_files (lines 197-234): the storage left and the result.
RECURSIVE delete_local_files(_, _, _)
delete_local_files(file_paths, fs, stuck) ==
    IF file_paths = <<>>
    THEN [fs |-> fs, deleted |-> 0, failed |-> 0]
    ELSE LET p == Head(file_paths)
             gone == p \in DOMAIN fs /\ p \notin stuck
             rest == delete_local_files(Tail(file_paths),
                        IF gone THEN [q \in DOMAIN fs \ {p} |-> fs[q]] ELSE fs, stuck)
         IN  [fs |-> rest.fs,
              deleted |-> rest.deleted + (IF gone THEN 1 ELSE 0),
              failed |-> rest.failed + (IF p \in DOMAIN fs /\ p \in stuck THEN 1 ELSE 0)]

\* A cleanup that removes the files that did upload when another failed.
upload_and_cleanup_uploaded(file_paths, fs, ok, stuck) ==
    LET u == upload_batch(file_paths, fs, ok)
        d == delete_local_files(u.uploaded_files, fs, stuck)
    IN  [upload_success |-> u.success, cleanup_success |-> u.success /\ d.failed = 0,
         uploaded_count |-> Len(u.uploaded_files),
         failed_count |-> Len(u.failed_files), fs |-> d.fs]

\* upload_and_cleanup (lines 236-271).
upload_and_cleanup(file_paths, fs, ok, stuck) ==
    LET u == upload_batch(file_paths, fs, ok)
        d == delete_local_files(u.uploaded_files, fs, stuck)
    IN  IF u.success
        THEN [upload_success |-> TRUE, cleanup_success |-> d.failed = 0,
              uploaded_count |-> Len(u.uploaded_files), failed_count |-> 0, fs |-> d.fs]
        ELSE [upload_success |-> FALSE, cleanup_success |-> FALSE,
              uploaded_count |-> Len(u.uploaded_files),
              failed_count |-> Len(u.failed_files), fs |-> fs]

(***************************************************************************)
(* The session orchestrator, MultiCamApp.  Each caller c (a UI callback    *)
(* thread) has one call record app[c]:                                     *)
(*   pc          "idle", the line the call is at, "raise" while an         *)
(*               exception travels to the except clause, or "returned"     *)
(*   op          "start" or "stop"                                         *)
(*   outcome     the message returned, by kind                             *)
(*   status      the status text returned ("Ready" or "Recording")         *)
(*   entry       recording_in_progress when the call was made              *)
(*   todo        entries of file_ids download_all_files has yet to visit   *)
(*   cur         the entry it is at, between the test of line 344 and the  *)
(*               lookup of line 345 ("" when at none)                      *)
(*   downloaded  downloaded_files                                          *)
(*   gets        the GET_VIDEO commands issued: [name, ip, file_id] and    *)
(*               the result send_command returned                          *)
(*   uploaded    uploaded_count of the upload result                       *)
(*   failed_count, upload_success, cleanup_success   the other fields of   *)
(*               the upload result                                         *)
(*   ok, stuck   the paths whose upload succeeded / whose removal fails    *)
(*   before      local storage when upload_and_cleanup was called          *)
(***************************************************************************)
IdleApp ==
    [pc |-> "idle", op |-> "", outcome |-> "", status |-> "", entry |-> FALSE,
     device_count |-> 0, file_ids |-> <<>>, todo |-> {}, cur |-> "", downloaded |-> <<>>,
     gets |-> <<>>, uploaded |-> 0, failed_count |-> 0, upload_success |-> FALSE,
     cleanup_success |-> FALSE, ok |-> {}, stuck |-> {}, before |-> NoFiles]

Return(a, outcome, status) == [a EXCEPT !.pc = "returned", !.outcome = outcome,
                                        !.status = status]

\* A UI callback invokes start_recording or stop_recording.
AppCall(c, op) ==
    /\ app[c].pc = "idle"
    /\ bc[c].pc = "none"
    /\ app' = [app EXCEPT ![c] = [IdleApp EXCEPT !.pc = IF op = "start" THEN "s114" ELSE "p140",
                                                 !.op = op,
                                                 !.entry = recording_in_progress]]
    /\ UNCHANGED <<discovered_devices, now, bc, recording_in_progress>>
    /\ UNCHANGED <<chVars, dispatched, disc>>

\* start_recording, lines 114-115.
Start114(c) ==
    /\ app[c].pc = "s114"
    /\ app' = [app EXCEPT ![c] = IF discovered_devices = <<>>
                                 THEN Return(@, "no_devices", "Ready")
                                 ELSE [@ EXCEPT !.pc = "s117"]]
    /\ UNCHANGED <<discovered_devices, now, bc, recording_in_progress>>
    /\ UNCHANGED <<chVars, dispatched, disc>>

\* start_recording, lines 117-118.
Start117(c) ==
    /\ app[c].pc = "s117"
    /\ app' = [app EXCEPT ![c] = IF recording_in_progress
                                 THEN Return(@, "wrong_state", "Recording")
                                 ELSE [@ EXCEPT !.pc = "s120"]]
    /\ UNCHANGED <<discovered_devices, now, bc, recording_in_progress>>
    /\ UNCHANGED <<chVars, dispatched, disc>>

\* start_recording, lines 120-125: the flag is set and the broadcast called.
Start120(c) ==
    /\ app[c].pc = "s120"
    /\ recording_in_progress' = TRUE
    /\ app' = [app EXCEPT ![c].pc = "s125", ![c].device_count = Len(discovered_devices)]
    /\ Invoke(c, "START_RECORDING", <<>>)
    /\ dispatched' = "START_RECORDING"
    /\ UNCHANGED <<discovered_devices, now>>
    /\ UNCHANGED <<chVars, disc>>

\* A test that asks for one device at least whose outcome is truthy.
ResultAnySuccess(ret) ==
    ~ ret.none /\ \E n \in DOMAIN ret.map : Truthy(ret.map[n])

\* bool(result) of the value send_command_to_all returned.
ResultTruthy(ret) == ~ ret.none /\ DOMAIN ret.map # {}

\* start_recording, lines 127-131, once the broadcast has returned.
Start127(c) ==
    /\ app[c].pc = "s125"
    /\ bc[c].pc = "done"
    /\ IF ResultTruthy(bc[c].ret)
       THEN /\ app' = [app EXCEPT ![c] = Return(@, "started", "Recording")]
            /\ UNCHANGED recording_in_progress
       ELSE /\ recording_in_progress' = FALSE
            /\ app' = [app EXCEPT ![c] = Return(@, "start_failed", "Ready")]
    /\ UNCHANGED <<discovered_devices, now, bc>>
    /\ UNCHANGED <<chVars, dispatched, disc>>

\* stop_recording, lines 140-146: the state check, then the broadcast call.
Stop140(c) ==
    /\ app[c].pc = "p140"
    /\ IF ~ recording_in_progress
       THEN /\ app' = [app EXCEPT ![c] = Return(@, "wrong_state", "Ready")]
            /\ UNCHANGED <<bc, dispatched>>
       ELSE /\ app' = [app EXCEPT ![c].pc = "p146",
                                  ![c].device_count = Len(discovered_devices)]
            /\ Invoke(c, "STOP_RECORDING", <<>>)
            /\ dispatched' = "STOP_RECORDING"
    /\ UNCHANGED <<discovered_devices, now, recording_in_progress>>
    /\ UNCHANGED <<chVars, disc>>

\* stop_recording, lines 147-149 and 179, once the broadcast has returned.
Stop147(c) ==
    /\ app[c].pc = "p146"
    /\ bc[c].pc = "done"
    /\ recording_in_progress' = FALSE
    /\ app' = [app EXCEPT ![c] =
                 IF ResultTruthy(bc[c].ret)
                 THEN [@ EXCEPT !.pc = "p153", !.file_ids = bc[c].ret.map,
                                !.todo = DOMAIN bc[c].ret.map]
                 ELSE Return(@, "no_files", "Ready")]
    /\ UNCHANGED <<discovered_devices, now, bc>>
    /\ UNCHANGED <<chVars, dispatched, disc>>

\* download_all_files, lines 343-344: the loop takes an entry of file_ids
\* and tests whether its device is in the registry.
DownloadTest(c, name) ==
    /\ app[c].pc = "p153"
    /\ app[c].cur = ""
    /\ name \in app[c].todo
    /\ app' = [app EXCEPT ![c].todo = @ \ {name},
                           ![c].cur = IF name \in Names(discovered_devices) THEN name ELSE ""]
    /\ UNCHANGED <<discovered_devices, now, bc, recording_in_progress>>
    /\ UNCHANGED <<chVars, dispatched, disc>>

\* download_all_files, lines 345-349: the lookup of the device (KeyError
\* when it has left the registry since the test), the GET_VIDEO command
\* and the append of the path returned.
Download(c, scripts) ==
    /\ app[c].pc = "p153"
    /\ app[c].cur # ""
    /\ IF app[c].cur \in Names(discovered_devices)
       THEN \E script \in scripts :
              LET name == app[c].cur
                  device == discovered_devices[IndexOf(discovered_devices, name)]
                  o == send_command(device.ip, "GET_VIDEO", script)
              IN  /\ files' = WriteFile(files, o)
                  /\ app' = [app EXCEPT
                        ![c].cur = "",
                        ![c].gets = Append(@, [name |-> name, ip |-> device.ip,
                                               file_id |-> app[c].file_ids[name].s,
                                               result |-> o.val]),
                        ![c].downloaded = IF Truthy(o.val) THEN Append(@, o.val.s) ELSE @]
       ELSE /\ app' = [app EXCEPT ![c].pc = "raise", ![c].cur = ""]
            /\ UNCHANGED files
    /\ UNCHANGED <<discovered_devices, now, bc, recording_in_progress>>
    /\ UNCHANGED <<ch_pc, ch_call, ch_ret, dispatched, disc, reading, sockets>>

\* A report that does not look at the cleanup.
TierOfUploadOnly(r) == IF r.upload_success THEN "full_success" ELSE "upload_failed"

\* The tier stop_recording reports for an upload result (lines 159-175).
Tier(r) ==
    IF r.upload_success
    THEN (IF r.cleanup_success THEN "full_success" ELSE "partial_success")
    ELSE "upload_failed"

\* stop_recording, lines 155-177, once download_all_files has returned.
Stop155(c) ==
    /\ app[c].pc = "p153"
    /\ app[c].todo = {}
    /\ app[c].cur = ""
    /\ IF app[c].downloaded # <<>>
       THEN \E ok \in SUBSET {app[c].downloaded[i] : i \in 1..Len(app[c].downloaded)},
               stuck \in SUBSET {app[c].downloaded[i] : i \in 1..Len(app[c].downloaded)} :
              LET r == upload_and_cleanup(app[c].downloaded, files, ok, stuck)
              IN  /\ files' = r.fs
                  /\ app' = [app EXCEPT ![c] =
                               Return([@ EXCEPT !.uploaded = r.uploaded_count,
                                                !.failed_count = r.failed_count,
                                                !.upload_success = r.upload_success,
                                                !.cleanup_success = r.cleanup_success,
                                                !.ok = ok, !.stuck = stuck,
                                                !.before = files],
                                      Tier(r), "Ready")]
       ELSE /\ app' = [app EXCEPT ![c] = Return(@, "download_failed", "Ready")]
            /\ UNCHANGED files
    /\ UNCHANGED <<discovered_devices, now, bc, recording_in_progress>>
    /\ UNCHANGED <<ch_pc, ch_call, ch_ret, dispatched, disc, reading, sockets>>

\* The UI takes the value the callback returned.
AppDone(c) ==
    /\ app[c].pc = "returned"
    /\ app' = [app EXCEPT ![c] = IdleApp]
    /\ bc' = [bc EXCEPT ![c] = NoBroadcast]
    /\ UNCHANGED <<discovered_devices, now, recording_in_progress>>
    /\ UNCHANGED <<chVars, dispatched, disc>>

\* An exception raised inside upload_and_cleanup (line 157) leaves it.
UploadRaises(c) ==
    /\ app[c].pc = "p153"
    /\ app[c].todo = {}
    /\ app[c].cur = ""
    /\ app[c].downloaded # <<>>
    /\ app' = [app EXCEPT ![c].pc = "raise"]
    /\ UNCHANGED <<discovered_devices, now, bc, recording_in_progress>>
    /\ UNCHANGED <<chVars, dispatched, disc>>

\* An except clause that reports the exception and leaves the flag alone.
ExceptKeepsFlag(c) ==
    /\ \/ app[c].pc = "raise"
       \/ app[c].pc \in {"s125", "p146"} /\ bc[c].pc = "raised"
    /\ app' = [app EXCEPT ![c] = Return(@, "error", "Ready")]
    /\ UNCHANGED <<discovered_devices, now, bc, recording_in_progress>>
    /\ UNCHANGED <<chVars, dispatched, disc>>

\* The except clauses of start_recording (lines 133-135) and stop_recording
\* (lines 181-183): an exception of the broadcast, the retrieval or the
\* upload clears the flag and is reported.
Except(c) ==
    /\ \/ app[c].pc = "raise"
       \/ app[c].pc \in {"s125", "p146"} /\ bc[c].pc = "raised"
    /\ recording_in_progress' = FALSE
    /\ app' = [app EXCEPT ![c] = Return(@, "error", "Ready")]
    /\ UNCHANGED <<discovered_devices, now, bc>>
    /\ UNCHANGED <<chVars, dispatched, disc>>

AppStep(c, transfers) ==
    \/ AppCall(c, "start")
    \/ AppCall(c, "stop")
    \/ Start114(c)
    \/ Start117(c)
    \/ Start120(c)
    \/ Start127(c)
    \/ Stop140(c)
    \/ Stop147(c)
    \/ \E name \in app[c].todo : DownloadTest(c, name)
    \/ Download(c, transfers)
    \/ Stop155(c)
    \/ AppDone(c)

InitCore ==
    /\ discovered_devices = <<>>
    /\ now = 1
    /\ bc = [c \in Callers |-> NoBroadcast]
    /\ app = [c \in Callers |-> IdleApp]
    /\ recording_in_progress = FALSE
    /\ dispatched = ""
    /\ disc = NoDiscovery

Init == InitChannel /\ InitCore

NextChannel == ChCall \/ ChRun

SpecChannel == Init /\ [][NextChannel]_vars

\* A sequence of send_command calls, with the sockets they leave behind.
NextSockets == ChCall \/ ChRun \/ ChAgain \/ Finalize

SpecSockets == Init /\ [][NextSockets]_vars

BroadcastStep(c, scripts) ==
    \/ BcEnter(c)
    \/ BcSpawn(c)
    \/ BcLoopEnd(c)
    \/ \E name \in bc[c].started : ThreadRun(c, name, scripts)
    \/ BcJoinReturn(c)

NextBroadcast ==
    \/ RegistryStep(StableInfos, {<<"10", "0", "0", "1">>}, MaxDevices)
    \/ Tick
    \/ CallBroadcast("ui1")
    \/ Forget("ui1")
    \/ BroadcastStep("ui1", BroadcastScripts)

SpecBroadcast == Init /\ [][NextBroadcast]_vars

\* Peer behaviours met by the application: refused, a reply with a fileId,
\* a reply without one.
AppScripts ==
    { s \in BroadcastScripts :
        ~ s.connect \/ (s.deliveries # <<>> /\
                        s.deliveries[1] \in {<<"{", "fid", "}">>, <<"{", "ok", "}">>}) }

\* Transfers met by the application: refused, complete, cut short.
AppTransfers ==
    { s \in TransferScripts :
        \/ ~ s.connect
        \/ /\ s \in FramedScripts /\ s.cuts = {} /\ s.end = "close"
           /\ s.fileSize = SmallFile /\ s.content \in {1, SmallFile} }

\* Peers of the runs with a changing registry: refused or replying.
DiscoveryScripts == { s \in AppScripts : ~ s.connect \/ s.deliveries[1] = <<"{", "fid", "}">> }

\* A broadcast while the discovery thread changes the registry.
NextDiscovery ==
    \/ LiveRegistryStep(StableInfos, {<<"10", "0", "0", "1">>}, MaxDevices)
    \/ CallBroadcast("ui1")
    \/ Forget("ui1")
    \/ BroadcastStep("ui1", DiscoveryScripts)
    \/ BcFault("ui1")

SpecDiscovery == Init /\ [][NextDiscovery]_vars

\* One UI thread at a time: the calls of the application in sequence.
NextApp ==
    \/ RegistryStep(StableInfos, {<<"10", "0", "0", "1">>}, MaxDevices)
    \/ AppStep("ui1", AppTransfers)
    \/ BroadcastStep("ui1", AppScripts)

SpecApp == Init /\ [][NextApp]_vars

\* Registry size, peers and transfers of the concurrent runs.
RaceDevices == 1

RaceScripts == { s \in AppScripts : ~ s.connect \/ s.deliveries[1] = <<"{", "fid", "}">> }

RaceTransfers == { s \in AppTransfers : s.connect => s.content = s.fileSize }

\* Registry size of the runs of the application with a changing registry.
LiveDevices == 2

\* The calls of the application, one at a time, while the discovery thread
\* changes the registry.
NextLive ==
    \/ LiveRegistryStep(StableInfos, {<<"10", "0", "0", "1">>}, LiveDevices)
    \/ AppStep("ui1", RaceTransfers)
    \/ BroadcastStep("ui1", DiscoveryScripts)
    \/ BcFault("ui1")
    \/ UploadRaises("ui1")
    \/ Except("ui1")

SpecLive == Init /\ [][NextLive]_vars

\* Two UI threads whose start and stop callbacks run concurrently.
\* One send_command call at a time, read by read.  Every blocking call
\* returns: with a result, or with its timeout.
NextReading ==
    \/ \E command \in Commands \ {"GET_VIDEO"} : ReadCall(command)
    \/ ReadStep
    \/ ReadForget

SpecReading == Init /\ [][NextReading]_vars /\ WF_vars(ReadStep)

\* Entries the registry-only specification keeps.
RegistryDevices == 3

\* The registry on its own: discovery runs, services come, move and go,
\* and addresses are added by hand.
NextRegistry ==
    \/ RegistryStep(MovingInfos, Addrs, RegistryDevices)
    \/ \E present \in Networks(MovingInfos) : \E order \in Orders(DOMAIN present) :
          discover_devices(present, order)

SpecRegistry == Init /\ [][NextRegistry]_vars

NextRace ==
    \/ RegistryStep(StableInfos, {<<"10", "0", "0", "1">>}, RaceDevices)
    \/ \E c \in Callers : AppStep(c, RaceTransfers) \/ BroadcastStep(c, RaceScripts)

SpecRace == Init /\ [][NextRace]_vars

(***************************************************************************)
(* Claims on the command channel and the file transfer reader.             *)
(***************************************************************************)
Returned == ch_pc = "returned"

\* The script is a frame with a valid length prefix and metadata block.
ValidFrame(script) ==
    /\ script.connect
    /\ script.prefix = Pack(Len(script.header))
    /\ script.header = GoodHeader

\* The length prefix arrives in one delivery.
PrefixWhole(script) == \A c \in script.cuts : c >= PrefixLen

\* The intervals written are the bytes 1..n of the content, in order.
RECURSIVE InOrder(_, _)
InOrder(writes, first) ==
    IF writes = <<>> THEN TRUE
    ELSE Head(writes)[1] = first /\ Head(writes)[2] >= first
         /\ InOrder(Tail(writes), Head(writes)[2] + 1)

HoldsContent(writes, n) ==
    /\ InOrder(writes, 1)
    /\ (IF writes = <<>> THEN 0 ELSE writes[Len(writes)][2]) = n

\* C3: when the peer closes after a valid length prefix and metadata block
\* but before fileSize content bytes, the reader returns a failure outcome
\* and never a local path.
C3_ShortStreamFails ==
    (Returned /\ ch_call.command = "GET_VIDEO" /\ ValidFrame(ch_call.script)
        /\ ch_call.script.content < ch_call.script.fileSize
        /\ ch_call.script.end = "close")
    => ch_ret.val = PyFalse

\* C6: send_command returns a value and lets no exception out, for every
\* command and every peer behaviour.
C6_NeverRaises == Returned => ch_ret.val.t # "raise"

C6_Witness ==
    Returned /\ ch_ret.exc \in {"JSONDecodeError", "UnicodeDecodeError", "TypeError"}
    /\ ch_ret.val = PyFalse

\* C7: for a command other than GET_VIDEO, when the peer sends no byte
\* (silent until the timeout, or closes at once), send_command returns a
\* failure outcome.
C7_NoReplyFails ==
    (Returned /\ ch_call.command # "GET_VIDEO" /\ ch_call.script.connect
        /\ ch_call.script.deliveries = <<>>)
    => ch_ret.val = PyFalse

\* The same reply delivered in one piece.
InOnePiece(script) == [script EXCEPT !.deliveries = <<Concat(script.deliveries)>>]

\* The reply is a structured object that arrives in two or more pieces.
SplitReply ==
    /\ Returned /\ ch_call.command # "GET_VIDEO" /\ ch_call.script.connect
    /\ Len(ch_call.script.deliveries) >= 2
    /\ ParseJSON(Concat(ch_call.script.deliveries)).err = ""
    /\ ParseJSON(Concat(ch_call.script.deliveries)).val.t = "dict"

\* C8 as claimed: for every command other than GET_VIDEO a structured reply
\* split across deliveries gives the same result as in a single delivery.
C8_SplitReplyAnyCommand ==
    SplitReply =>
        ch_ret.val = send_command(ch_call.ip, ch_call.command, InOnePiece(ch_call.script)).val

\* C8 amended: LIST_FILES keeps reading until the accumulated bytes parse
\* and returns the result of a single delivery; the other commands read
\* once, so their result is a failure unless the first piece alone is a
\* complete value.
C8_SplitReplyListFiles ==
    SplitReply =>
        IF ch_call.command = "LIST_FILES"
              \/ ParseJSON(ch_call.script.deliveries[1]).err = ""
        THEN ch_ret.val = send_command(ch_call.ip, ch_call.command,
                                       InOnePiece(ch_call.script)).val
             /\ ch_ret.val.t \in {"dict", "str"}
        ELSE ch_ret.val = PyFalse /\ ch_ret.reads = 1

C8_Witness ==
    SplitReply /\ ch_call.command = "LIST_FILES" /\ ch_ret.reads >= 3
    /\ ch_ret.val.t = "dict"

\* C9: for a well-formed frame whose content arrives in chunks of any
\* sizes, the reader returns the local path, the local file holds exactly
\* the fileSize content bytes in order, and no recv asks for more than the
\* bytes still owed nor for more than 8192.
C9_WellFormedTransfer ==
    (Returned /\ ch_call.command = "GET_VIDEO" /\ ValidFrame(ch_call.script)
        /\ PrefixWhole(ch_call.script)
        /\ ch_call.script.content = ch_call.script.fileSize)
    => LET path == LocalPath(ch_call.ip, ch_call.script.fileName)
           size == ch_call.script.fileSize
           got(i) == IF i = 1 THEN 0 ELSE ch_ret.writes[i - 1][2]
       IN  /\ ch_ret.val = PyStr(path)
           /\ path \in DOMAIN files
           /\ HoldsContent(files[path], size)
           /\ Len(ch_ret.reqs) = Len(ch_ret.writes)
           /\ \A i \in 1..Len(ch_ret.reqs) :
                 /\ ch_ret.reqs[i][1] <= size - got(i)
                 /\ ch_ret.reqs[i][1] <= RecvChunk

C9_Witness ==
    /\ Returned /\ ch_call.command = "GET_VIDEO" /\ ValidFrame(ch_call.script)
    /\ ch_call.script.content = ch_call.script.fileSize
    /\ ch_call.script.fileSize > RecvChunk
    /\ Len(ch_ret.writes) >= 3
    /\ ch_ret.val.t = "str"

\* The bytes the peer sends after the length prefix.
AfterPrefix(script) == Len(script.header) + script.content

\* The block of declared length the peer sends as metadata.
DeclaredBlock(script) ==
    [i \in 1..Unpack(script.prefix) |-> StreamUnit(script, PrefixLen + i)]

\* The frame is one the reader has to refuse: the length prefix is short,
\* the peer closes before the declared metadata bytes, or the metadata
\* block is not an object with fileName and fileSize.
RefusedFrame(script) ==
    /\ script.connect
    /\ \/ Len(script.prefix) < PrefixLen
       \/ /\ Len(script.prefix) = PrefixLen
          /\ AfterPrefix(script) < Unpack(script.prefix)
          /\ script.end = "close"
       \/ /\ Len(script.prefix) = PrefixLen
          /\ AfterPrefix(script) >= Unpack(script.prefix)
          /\ LET p == ParseJSON(DeclaredBlock(script))
             IN  p.err # "" \/ p.val.t # "dict" \/ ~ ({"name", "size"} \subseteq p.val.f)

\* C18: the reader returns a failure outcome when the 4-byte length cannot
\* be fully read, when the connection closes before the declared number of
\* metadata bytes has arrived, or when the metadata block does not decode
\* to an object with fileName and fileSize; on every failure it deletes
\* nothing, so a partially written local file stays on disk.
C18_BadFrameFails ==
    (Returned /\ ch_call.command = "GET_VIDEO") =>
        /\ RefusedFrame(ch_call.script) => ch_ret.val = PyFalse
        /\ (ch_ret.val = PyFalse /\ ch_ret.path # "") =>
              ch_ret.path \in DOMAIN files /\ files[ch_ret.path] = ch_ret.writes

\* The peer's reply is one delivery holding a structured object.
ObjectReply ==
    /\ Returned /\ ch_call.command # "GET_VIDEO" /\ ch_call.script.connect
    /\ Len(ch_call.script.deliveries) = 1
    /\ ParseJSON(ch_call.script.deliveries[1]).err = ""
    /\ ParseJSON(ch_call.script.deliveries[1]).val.t = "dict"

\* The members of the object the peer sent.
Members(bytes) == {bytes[i] : i \in 1..Len(bytes)} \cap MemberUnits

\* C19: for STOP_RECORDING a reply object with a non-empty fileId makes
\* send_command return that identifier alone, whatever the other members
\* (an error member included); every other command, and a STOP_RECORDING
\* reply with no or an empty fileId, returns the full parsed reply.
C19_FileIdAlone ==
    ObjectReply =>
        ch_ret.val =
            IF ch_call.command = "STOP_RECORDING"
                  /\ "fid" \in Members(ch_call.script.deliveries[1])
            THEN PyStr("vid1")
            ELSE PyDict(Members(ch_call.script.deliveries[1]))

C19_Witness ==
    /\ ObjectReply /\ ch_call.command = "STOP_RECORDING"
    /\ {"fid", "err"} \subseteq Members(ch_call.script.deliveries[1])
    /\ ch_ret.val = PyStr("vid1")

(***************************************************************************)
(* Claims on the broadcast coordinator.                                    *)
(***************************************************************************)
\* The broadcast of caller ui1 has returned a map.
BcDone == bc["ui1"].pc = "done" /\ ~ bc["ui1"].ret.none

\* The peer made the send fail: connect error, timeout or undecodable reply.
SendFailed(script) ==
    \/ ~ script.connect
    \/ script.deliveries = <<>> /\ script.end = "silent"
    \/ script.deliveries # <<>> /\ ParseJSON(script.deliveries[1]).err # ""

\* C1: for every command, STOP_RECORDING included, the map the broadcast
\* returns has an entry for every device targeted, and a device whose send
\* failed is in it with a failure outcome.
C1_EveryDeviceInMap ==
    BcDone =>
        \A name \in bc["ui1"].started :
            /\ name \in DOMAIN bc["ui1"].ret.map
            /\ SendFailed(bc["ui1"].sent[name][1].script)
                  => bc["ui1"].ret.map[name] = PyFalse

\* C2: one broadcast of START_RECORDING over a non-empty registry issues
\* exactly one command per registered device, failed devices included, and
\* every envelope carries the same timestamp.
C2_OneCommandSameInstant ==
    (BcDone /\ bc["ui1"].command = "START_RECORDING") =>
        /\ DOMAIN bc["ui1"].sent = Names(discovered_devices)
        /\ Names(discovered_devices) # {}
        /\ \A n \in DOMAIN bc["ui1"].sent : Len(bc["ui1"].sent[n]) = 1
        /\ \A n, m \in DOMAIN bc["ui1"].sent :
              bc["ui1"].sent[n][1].ts = bc["ui1"].sent[m][1].ts

C2_Witness ==
    /\ BcDone /\ bc["ui1"].command = "START_RECORDING"
    /\ bc["ui1"].timestamp = <<>>
    /\ Len(discovered_devices) = 2
    /\ \E n, m \in DOMAIN bc["ui1"].sent :
          /\ ~ bc["ui1"].sent[n][1].script.connect
          /\ bc["ui1"].sent[m][1].script.connect
    /\ now + SyncDelay > bc["ui1"].sync

\* C10: when the broadcast returns, every thread it started has ended and
\* has stored its outcome.
C10_JoinedBeforeReturn ==
    bc["ui1"].pc = "done" =>
        /\ bc["ui1"].started \subseteq bc["ui1"].finished
        /\ DOMAIN bc["ui1"].results = bc["ui1"].started
        /\ (~ bc["ui1"].ret.none => bc["ui1"].started = Names(discovered_devices))

C10_Witness ==
    BcDone /\ Cardinality(bc["ui1"].started) = 2 /\ bc["ui1"].finished = bc["ui1"].started

\* The names of seq are pairwise distinct.
NoRepeat(seq) == \A i, j \in 1..Len(seq) : seq[i] = seq[j] => i = j

\* C11: a broadcast that runs while discovery adds or removes registry
\* entries does not fault, targets no device twice, and targets exactly the
\* devices the registry held at one single instant of its execution.
C11_ConsistentSnapshot ==
    /\ bc["ui1"].pc # "raised"
    /\ bc["ui1"].pc \in {"join", "done"} =>
          /\ NoRepeat(bc["ui1"].order)
          /\ {bc["ui1"].order[i] : i \in 1..Len(bc["ui1"].order)} \in bc["ui1"].snaps

(***************************************************************************)
(* Claims on the session orchestrator.                                     *)
(***************************************************************************)
\* The call of ui1 was made in the wrong state and has returned.
WrongStateCall ==
    /\ app["ui1"].pc = "returned"
    /\ \/ app["ui1"].op = "stop" /\ ~ app["ui1"].entry
       \/ app["ui1"].op = "start" /\ app["ui1"].entry

\* C4: stop() while Idle and start() while Recording are rejected with a
\* wrong-state failure, open no connection, send no command and leave the
\* in-progress flag unchanged.
C4_WrongStateRejected ==
    WrongStateCall =>
        /\ app["ui1"].outcome = "wrong_state"
        /\ app["ui1"].status = (IF app["ui1"].entry THEN "Recording" ELSE "Ready")
        /\ bc["ui1"] = NoBroadcast
        /\ app["ui1"].gets = <<>>
        /\ recording_in_progress = app["ui1"].entry

\* C5: START_RECORDING and STOP_RECORDING broadcasts strictly alternate,
\* beginning with START, under every interleaving of concurrent start() and
\* stop() calls.
C5_BroadcastsAlternate ==
    [][\A c \in Callers :
          (bc[c].pc # "entry" /\ bc'[c].pc = "entry") =>
              /\ bc'[c].command # dispatched
              /\ (dispatched = "" => bc'[c].command = "START_RECORDING")]_vars

\* The stop_recording call of ui1 passed the state check and has returned.
StopReturned ==
    /\ app["ui1"].pc = "returned" /\ app["ui1"].op = "stop"
    /\ app["ui1"].outcome # "wrong_state"

\* C12: every stop() that passes the state check ends with the in-progress
\* flag false and the Idle status, whatever the STOP_RECORDING broadcast
\* returned and also when the broadcast, the retrieval or the upload raised.
C12_StopEndsIdle ==
    StopReturned => ~ recording_in_progress /\ app["ui1"].status = "Ready"

C12_Witness ==
    /\ StopReturned /\ app["ui1"].outcome = "error" /\ bc["ui1"].pc = "raised"
    /\ bc["ui1"].started # {}
    /\ ~ recording_in_progress

\* The start_recording call of ui1 was made in Idle, its broadcast started
\* a thread for one device at least, and it has returned.
StartDispatched ==
    /\ app["ui1"].pc = "returned" /\ app["ui1"].op = "start" /\ ~ app["ui1"].entry
    /\ bc["ui1"].started # {}

\* C13: when start() is invoked in Idle with a non-empty registry and the
\* START_RECORDING broadcast is dispatched, the session is Recording once
\* start() has returned and success is reported, however many devices, all
\* of them included, returned a failure outcome.
C13_StartedDespiteFailures ==
    StartDispatched =>
        /\ app["ui1"].outcome = "started"
        /\ app["ui1"].status = "Recording"
        /\ recording_in_progress
        /\ bc["ui1"].command = "START_RECORDING"

C13_Witness ==
    /\ StartDispatched /\ Cardinality(bc["ui1"].started) = 2
    /\ \A n \in bc["ui1"].started : bc["ui1"].ret.map[n] = PyFalse
    /\ app["ui1"].outcome = "started" /\ recording_in_progress

\* The stop_recording call of ui1 has retrieved a file from two devices.
TwoRetrieved ==
    /\ app["ui1"].op = "stop" /\ Len(app["ui1"].gets) = 2
    /\ Len(app["ui1"].downloaded) = 2
    /\ app["ui1"].gets[1].name # app["ui1"].gets[2].name

\* C14: two distinct registered devices that declare the same fileName get
\* different local paths, so the download from one never overwrites the
\* download from the other.
C14_PathsDiffer ==
    TwoRetrieved =>
        /\ app["ui1"].downloaded[1] # app["ui1"].downloaded[2]
        /\ \A i, j \in 1..Len(discovered_devices) :
              i # j => LocalPath(discovered_devices[i].ip, "a.mov")
                         # LocalPath(discovered_devices[j].ip, "a.mov")

\* The broadcast of ui1 is START_RECORDING with no explicit instant.
SyncedStart(b) == b.command = "START_RECORDING" /\ b.timestamp = <<>>

\* C15: when START_RECORDING is broadcast with no explicit instant, the
\* shared start instant is computed once, before any per-device dispatch,
\* as the clock at that moment plus sync_delay; it never changes afterwards
\* and every envelope carries it, whatever the number of devices and however
\* long the dispatch takes.
C15_InstantOnceBeforeDispatch ==
    [][LET b == bc["ui1"]
           a == bc'["ui1"]
       IN  /\ (SyncedStart(b) /\ b.pc = "entry" /\ a.pc = "loop") =>
                  a.sync = now + SyncDelay /\ a.started = {}
           /\ (SyncedStart(b) /\ b.pc \in {"loop", "join"} /\ a.pc # "none") =>
                  a.sync = b.sync
           /\ (SyncedStart(a) /\ a.pc # "none") =>
                  \A n \in DOMAIN a.sent : \A i \in 1..Len(a.sent[n]) :
                      a.sent[n][i].ts = a.sync]_vars

C15_Witness ==
    /\ BcDone /\ SyncedStart(bc["ui1"])
    /\ Cardinality(bc["ui1"].finished) = 2
    /\ \A n \in bc["ui1"].finished : bc["ui1"].sent[n][1].ts = bc["ui1"].sync
    /\ bc["ui1"].sync = 1 + SyncDelay
    /\ now = MaxClock

\* The stop_recording call of ui1 has called upload_and_cleanup and returned.
Uploaded ==
    /\ app["ui1"].pc = "returned" /\ app["ui1"].op = "stop"
    /\ app["ui1"].downloaded # <<>>
    /\ app["ui1"].outcome # "error"

PathsOf(seq) == {seq[i] : i \in 1..Len(seq)}

\* C16: when the upload of one file of the batch at least fails,
\* upload_and_cleanup deletes no local file, the uploaded ones included:
\* every path that existed before the call exists after it, and the result
\* reports upload failure with the number of failed files.
C16_FailedUploadKeepsFiles ==
    (Uploaded /\ ~ (PathsOf(app["ui1"].downloaded) \subseteq app["ui1"].ok)) =>
        /\ files = app["ui1"].before
        /\ ~ app["ui1"].upload_success
        /\ app["ui1"].failed_count =
              Cardinality({i \in 1..Len(app["ui1"].downloaded) :
                              app["ui1"].downloaded[i] \notin app["ui1"].ok})
        /\ app["ui1"].failed_count >= 1

C16_Witness ==
    /\ Uploaded /\ Len(app["ui1"].downloaded) = 2
    /\ Cardinality(app["ui1"].ok) = 1
    /\ app["ui1"].uploaded = 1 /\ app["ui1"].failed_count = 1
    /\ PathsOf(app["ui1"].downloaded) \subseteq DOMAIN files
    /\ app["ui1"].stuck = {}

\* C17: the tier stop() reports follows from the collaborators' results:
\* identifiers but no file downloaded is download failure; files downloaded
\* and an upload failed is upload failure; every upload succeeded and a
\* deletion failed is partial success; every upload succeeded and no
\* deletion failed is full success with as many uploads as downloaded files.
C17_OutcomeTier ==
    (app["ui1"].pc = "returned" /\ app["ui1"].op = "stop"
        /\ DOMAIN app["ui1"].file_ids # {} /\ app["ui1"].outcome # "error") =>
        LET a == app["ui1"]
            paths == PathsOf(a.downloaded)
        IN  a.outcome =
              IF a.downloaded = <<>> THEN "download_failed"
              ELSE IF ~ (paths \subseteq a.ok) THEN "upload_failed"
              ELSE IF (paths \cap DOMAIN a.before) \cap a.stuck # {} THEN "partial_success"
              ELSE IF a.uploaded = Len(a.downloaded) THEN "full_success"
              ELSE "none"

C17_Witness ==
    /\ Uploaded /\ app["ui1"].outcome = "partial_success"
    /\ Len(app["ui1"].downloaded) = 2 /\ Cardinality(app["ui1"].stuck) = 1
    /\ Cardinality(DOMAIN files) = 1

\* download_all_files of the stop_recording call of ui1 has returned.
Retrieved ==
    /\ app["ui1"].op = "stop" /\ DOMAIN app["ui1"].file_ids # {}
    /\ \/ app["ui1"].pc = "p153" /\ app["ui1"].todo = {} /\ app["ui1"].cur = ""
       \/ app["ui1"].pc = "returned" /\ app["ui1"].outcome # "error"

\* C20: a GET_VIDEO command carrying the fileId is issued for every entry
\* of the map stop() collected, once per entry, also when the registry
\* changes between the STOP_RECORDING broadcast and the retrieval, and the
\* list returned holds exactly the paths of the transfers that succeeded.
C20_EveryIdRetrieved ==
    Retrieved =>
        LET a == app["ui1"]
        IN  /\ Len(a.gets) = Cardinality(DOMAIN a.file_ids)
            /\ \A n \in DOMAIN a.file_ids :
                  \E i \in 1..Len(a.gets) :
                      a.gets[i].name = n /\ a.gets[i].file_id = a.file_ids[n].s
            /\ a.downloaded =
                  [i \in 1..Len(a.downloaded) |->
                      SelectSeq(a.gets, LAMBDA g : g.result.t = "str")[i].result.s]
            /\ Len(a.downloaded) = Len(SelectSeq(a.gets, LAMBDA g : g.result.t = "str"))


----------------------------------------------------------------------------
\* Device registry.

\* reg holds at most one entry per identity.
OneEntryPer(reg) ==
    \A i, j \in 1..Len(reg) : reg[i].name = reg[j].name => i = j

\* The entry reg holds for name: <<entry>>, or <<>> when it holds none.
EntryOf(reg, name) ==
    IF name \in Names(reg) THEN <<reg[IndexOf(reg, name)]>> ELSE <<>>

\* Every identity the registry can hold in this model.
Identities == DeviceNames \cup {"manual-" \o Join(ip, ".") : ip \in Addrs}

\* The last two runs of discover_devices saw the same network.
DiscoveredTwice == disc.runs >= 2

\* C21: running discovery twice while the set of devices on the network is
\* unchanged yields the same registry both times: the second run, folding
\* the same add events again, leaves the registry the first run left, with
\* one entry per identity.
C21_DiscoveryIdempotent ==
    DiscoveredTwice =>
        /\ discovered_devices = disc.first
        /\ OneEntryPer(discovered_devices)
        /\ \A name \in DOMAIN disc.present :
              disc.present[name] # <<>> =>
                 EntryOf(discovered_devices, name) =
                    <<[name |-> name, ip |-> disc.present[name][1].ip,
                       port |-> disc.present[name][1].port]>>

\* Two runs over a network of two resolving services, one of them at a new
\* address, with a third entry in the registry.
C21_Witness ==
    /\ DiscoveredTwice
    /\ DOMAIN disc.present = DeviceNames
    /\ \A name \in DeviceNames : disc.present[name] # <<>>
    /\ disc.present["cam1"][1] # StableInfo("cam1")
    /\ Len(discovered_devices) = RegistryDevices

\* Every entry of a but that of name is the entry b holds for its identity.
OthersKept(a, b, name) ==
    \A other \in Identities \ {name} : EntryOf(b, other) = EntryOf(a, other)

\* What the three registry operations make of the registry reg.
RegistryLaws(reg) ==
    /\ OneEntryPer(reg)
    /\ \A name \in DeviceNames : \A info \in MovingInfos[name] :
          LET r == Upsert(reg, name, info.ip, info.port)
          IN  /\ OneEntryPer(r)
              /\ EntryOf(r, name) = <<[name |-> name, ip |-> info.ip, port |-> info.port]>>
              /\ name \in Names(reg) => Len(r) = Len(reg) /\ IndexOf(r, name) = IndexOf(reg, name)
              /\ OthersKept(reg, r, name)
    /\ \A ip \in Addrs :
          LET name == "manual-" \o Join(ip, ".")
              r == Upsert(reg, name, ip, DefaultPort)
          IN  /\ OneEntryPer(r)
              /\ EntryOf(r, name) = <<[name |-> name, ip |-> ip, port |-> DefaultPort]>>
              /\ OthersKept(reg, r, name)
    /\ \A name \in Identities :
          LET r == Delete(reg, name)
          IN  /\ OneEntryPer(r)
              /\ name \notin Names(r)
              /\ name \notin Names(reg) => r = reg
              /\ OthersKept(reg, r, name)

\* A step of add_service, remove_service or manual_connect alters the entry
\* of one identity only.
OneIdentityAltered ==
    disc' = NoDiscovery =>
        \E name \in Identities : OthersKept(discovered_devices, discovered_devices', name)

\* C22: after any sequence of add_service, remove_service and
\* manual_connect the registry holds at most one entry per identity; adding
\* an identity already present replaces its address and port in place,
\* removing an absent identity changes nothing, and no operation alters the
\* entry of another identity.
C22_OneEntryPerIdentity ==
    /\ []RegistryLaws(discovered_devices)
    /\ [][OneIdentityAltered]_vars

\* A registry of a service that moved, a service at its first address and
\* an address added by hand, after the last discovery run.
C22_Witness ==
    /\ disc = NoDiscovery
    /\ Len(discovered_devices) = RegistryDevices
    /\ \E i \in 1..Len(discovered_devices), name \in DeviceNames :
          /\ discovered_devices[i].name = name
          /\ discovered_devices[i].ip # StableInfo(name).ip
          /\ i < Len(discovered_devices)
    /\ \E ip \in Addrs : "manual-" \o Join(ip, ".") \in Names(discovered_devices)

----------------------------------------------------------------------------
\* Sessions under concurrent calls.

\* A START_RECORDING broadcast is under way: called and not yet returned,
\* so not every thread it starts has been joined.
StartNotJoined ==
    \E c \in Callers :
        bc[c].command = "START_RECORDING" /\ bc[c].pc \in {"entry", "loop", "join"}

\* C23: under every interleaving of a start_recording() and a
\* stop_recording() call, no STOP_RECORDING is dispatched to a device (no
\* thread of a STOP_RECORDING broadcast is started, and none sends) while
\* the START_RECORDING broadcast of the session has not been joined.
C23_NoStopBeforeStartJoined ==
    [][\A c \in Callers :
          (/\ bc[c].command = "STOP_RECORDING"
           /\ bc'[c].command = "STOP_RECORDING"
           /\ \/ bc'[c].started # bc[c].started
              \/ bc'[c].finished # bc[c].finished)
          => ~ StartNotJoined]_vars

----------------------------------------------------------------------------
\* Independence of the per-device sends.

\* Threads of the broadcast of ui1 whose send has not returned: their
\* connect or read may be blocked up to its timeout.
Blocked == bc["ui1"].started \ bc["ui1"].finished

\* C24: within one broadcast the send to a device never waits on another
\* device: while sends are blocked the loop can still start the thread of
\* the next device, every blocked send can complete whatever the others
\* do, and only the return of the broadcast waits for them.
C24_NoWaitOnOtherDevice ==
    LET b == bc["ui1"]
    IN  /\ (/\ b.pc = "loop"
             /\ b.di_used \in {-1, Len(discovered_devices)}
             /\ b.idx <= Len(discovered_devices))
            => ENABLED BcSpawn("ui1")
        /\ \A name \in Blocked : ENABLED ThreadRun("ui1", name, BroadcastScripts)
        /\ Blocked # {} => ~ ENABLED BcJoinReturn("ui1")

\* The send to the second device has completed while the send to the
\* first one is still blocked.
C24_Witness ==
    /\ Len(bc["ui1"].order) = 2
    /\ Blocked = {bc["ui1"].order[1]}
    /\ bc["ui1"].order[2] \in DOMAIN bc["ui1"].results

\* The outcome of the send the invocation b made to name.
OwnOutcome(b, name) ==
    send_command(b.args[name].ip, b.command, b.sent[name][1].script).val

\* C26: the result maps of broadcasts that run at the same time are
\* separate: the map of each invocation holds, for the devices it started a
\* send to and for no other, the outcome of its own send of its own
\* command, and the map it returns is made of these outcomes only.
C26_ResultMapsPrivate ==
    \A c \in Callers :
        /\ DOMAIN bc[c].results = bc[c].finished
        /\ \A name \in DOMAIN bc[c].results :
              /\ Len(bc[c].sent[name]) = 1
              /\ bc[c].results[name] = OwnOutcome(bc[c], name)
        /\ bc[c].pc = "done" /\ ~ bc[c].ret.none =>
              bc[c].ret.map = ReturnValue(bc[c].command, bc[c].results)

\* Two broadcasts of different commands are both between their call and
\* their return, each with an outcome stored, and the outcomes differ.
C26_Witness ==
    /\ bc["ui1"].pc = "join" /\ bc["ui2"].pc = "join"
    /\ bc["ui1"].command # bc["ui2"].command
    /\ \E name \in DOMAIN bc["ui1"].results \cap DOMAIN bc["ui2"].results :
          bc["ui1"].results[name] # bc["ui2"].results[name]

----------------------------------------------------------------------------
\* Termination of a send.

\* C25: every send_command call eventually returns, whatever the device
\* does, given that each blocking connect or read returns within its
\* timeout; a device that keeps delivering bytes that never make a
\* complete JSON value cannot keep a LIST_FILES send reading forever.
C25_EverySendReturns ==
    (reading.pc = "connect") ~> (reading.pc = "returned")

\* The same for the commands read with a single recv.
SingleRecvReturns ==
    (reading.pc = "connect" /\ reading.command # "LIST_FILES") ~> (reading.pc = "returned")

----------------------------------------------------------------------------
\* Failure of start().

\* The start_recording call of ui1 has returned reporting a failure, with
\* the session Idle.
StartFailedIdle ==
    /\ app["ui1"].pc = "returned" /\ app["ui1"].op = "start"
    /\ app["ui1"].outcome \in {"no_devices", "start_failed", "error"}
    /\ app["ui1"].status = "Ready"
    /\ ~ recording_in_progress

\* The devices the broadcast of ui1 has delivered its command to.
Reached ==
    {name \in DOMAIN bc["ui1"].sent :
        \E i \in 1..Len(bc["ui1"].sent[name]) : bc["ui1"].sent[name][i].script.connect}

\* C27: whenever start() returns reporting failure and leaving the session
\* Idle, that call has sent START_RECORDING to no device, also when
\* discovery changes the registry between the emptiness check of start()
\* and the iteration of the broadcast.
C27_FailedStartSentNothing ==
    StartFailedIdle => Reached = {} /\ bc["ui1"].started = {}

----------------------------------------------------------------------------
\* The map of file identifiers.

\* The device replied with a structured object that has a non-empty fileId.
RepliedFileId(script) ==
    /\ script.connect /\ script.deliveries # <<>>
    /\ ParseJSON(script.deliveries[1]).err = ""
    /\ ParseJSON(script.deliveries[1]).val.t = "dict"
    /\ "fid" \in Members(script.deliveries[1])

\* C28: the map a STOP_RECORDING broadcast returns has an entry for a
\* device if and only if the reply of that device was a structured object
\* with a non-empty fileId, and the value of the entry is that fileId; a
\* bare string, an object without fileId and a failure produce no entry.
C28_StopMapExactlyFileIds ==
    BcDone /\ bc["ui1"].command = "STOP_RECORDING" =>
        \A name \in bc["ui1"].started :
            LET script == bc["ui1"].sent[name][1].script
            IN  /\ name \in DOMAIN bc["ui1"].ret.map <=> RepliedFileId(script)
                /\ name \in DOMAIN bc["ui1"].ret.map =>
                      bc["ui1"].ret.map[name] = PyStr("vid1")

----------------------------------------------------------------------------
\* Completeness of a full success.

\* The stop_recording call of ui1 has returned reporting full success.
FullSuccess ==
    /\ app["ui1"].pc = "returned" /\ app["ui1"].op = "stop"
    /\ app["ui1"].outcome = "full_success"

\* C29: when stop() reports full success, every file identifier of the
\* map the STOP_RECORDING broadcast returned was downloaded and uploaded:
\* the uploaded count of the outcome is the number of identifiers, and no
\* device whose download failed is behind a full success.
C29_FullSuccessCoversEveryId ==
    FullSuccess =>
        /\ app["ui1"].uploaded = Cardinality(DOMAIN app["ui1"].file_ids)
        /\ Len(app["ui1"].downloaded) = Cardinality(DOMAIN app["ui1"].file_ids)

----------------------------------------------------------------------------
\* Deliveries of the length prefix.

\* C30: a well-formed file-transfer frame is read successfully however its
\* bytes are split into deliveries: a 4-byte length prefix that arrives in
\* two or more deliveries is read in full and the transfer completes, as
\* with partial deliveries of the metadata block and of the content.
C30_AnySplitSucceeds ==
    (Returned /\ ch_call.command = "GET_VIDEO" /\ ValidFrame(ch_call.script)
        /\ ch_call.script.content = ch_call.script.fileSize)
    => LET path == LocalPath(ch_call.ip, ch_call.script.fileName)
       IN  /\ ch_ret.val = PyStr(path)
           /\ path \in DOMAIN files
           /\ HoldsContent(files[path], ch_call.script.fileSize)

----------------------------------------------------------------------------
\* Connections left open.

\* C31: every connection a send_command call opened is closed by the time
\* the call returns, on every path (structured reply, fileId, empty reply,
\* exception, successful and failed file transfer, the short length prefix
\* included): after any sequence of commands the controller owns no open
\* connection.
C31_NoConnectionLeftOpen ==
    /\ Returned /\ ch_ret.connected => ~ ch_ret.open
    /\ ch_pc # "called" => sockets = 0
====
